---- MODULE Spec2Model ----
(***************************************************************************)
(* A model of src/main.rs: the tokenizer, the Shunting Yard converter, the *)
(* postfix evaluator and the read-evaluate-print loop of the calculator.   *)
(*                                                                         *)
(* Every loop of the source is one action that performs one iteration of   *)
(* the loop body; the inner loops of an iteration are recursive operators. *)
(*                                                                         *)
(* f64 values.  A value is a tuple of integers.  <<0, n, d>> with d > 0 is *)
(* the rational n/d in lowest terms, <<0, 1, 0>> is +inf, <<0, -1, 0>> is  *)
(* -inf and <<0, 0, 0>> is NaN.  A result that is not a rational with      *)
(* numerator and denominator within ExactMax (a power with a non-integer   *)
(* exponent, a very large power) is kept as the uninterpreted term         *)
(* <<code>> \o a \o b of the operation that produced it.  The rounding of  *)
(* f64 arithmetic and the sign of zero are not modelled.                   *)
(***************************************************************************)
EXTENDS Integers, Sequences, FiniteSets, TLC

\* ------------------------------------------------------------------ bounds
\* Literals of the generated expressions are the digits 0..MaxNum.
MaxNum == 2
\* Longest well-formed expression, in tokens (and characters).
MaxLen == 7
\* Longest arbitrary token sequence given to infix_to_postfix.
MaxTokens == 4
\* Longest arbitrary text given to tokenize.
MaxText == 3
\* Longest arbitrary line given to the whole pipeline.
MaxLine == 4
\* Most lines on standard input.
MaxLines == 2
\* Most calls of read_line after the end of standard input.
MaxEof == 1
\* Largest numerator or denominator kept as an exact rational.
ExactMax == 30000

\* ------------------------------------------------------------- f64 values
Abs(x) == IF x < 0 THEN -x ELSE x

RECURSIVE Gcd(_, _)
Gcd(a, b) == IF b = 0 THEN a ELSE Gcd(b, a % b)

Inf == <<0, 1, 0>>
NegInf == <<0, -1, 0>>
NaN == <<0, 0, 0>>
Zero == <<0, 0, 1>>
One == <<0, 1, 1>>

IsTerm(v) == v[1] # 0
IsNaN(v) == v = NaN
IsInf(v) == v = Inf \/ v = NegInf
IsFin(v) == v[1] = 0 /\ v[3] # 0
Sgn(v) == IF v[2] > 0 THEN 1 ELSE IF v[2] < 0 THEN -1 ELSE 0
IsInt(v) == IsFin(v) /\ v[3] = 1

\* The uninterpreted result of operation code on a and b.
Term(code, a, b) == <<code>> \o a \o b

\* n/d (d # 0) in lowest terms, or the term when it is out of the exact range.
Rat(code, a, b, n, d) ==
    LET s == IF d < 0 THEN -1 ELSE 1
        g == Gcd(Abs(n), Abs(d))
        nn == (s * n) \div g
        dd == (s * d) \div g
    IN  IF Abs(nn) > ExactMax \/ dd > ExactMax THEN Term(code, a, b)
        ELSE <<0, nn, dd>>

\* An integer literal as a value.
Num(k) == <<0, k, 1>>

\* a + b
FAdd(a, b) ==
    IF IsNaN(a) \/ IsNaN(b) THEN NaN
    ELSE IF IsTerm(a) \/ IsTerm(b) THEN Term(1, a, b)
    ELSE IF IsInf(a) /\ IsInf(b) THEN (IF a = b THEN a ELSE NaN)
    ELSE IF IsInf(a) THEN a
    ELSE IF IsInf(b) THEN b
    ELSE Rat(1, a, b, a[2] * b[3] + b[2] * a[3], a[3] * b[3])

\* a - b
FSub(a, b) ==
    IF IsNaN(a) \/ IsNaN(b) THEN NaN
    ELSE IF IsTerm(a) \/ IsTerm(b) THEN Term(2, a, b)
    ELSE IF IsInf(a) /\ IsInf(b) THEN (IF a = b THEN NaN ELSE a)
    ELSE IF IsInf(a) THEN a
    ELSE IF IsInf(b) THEN <<0, -b[2], 0>>
    ELSE Rat(2, a, b, a[2] * b[3] - b[2] * a[3], a[3] * b[3])

\* a * b
FMul(a, b) ==
    IF IsNaN(a) \/ IsNaN(b) THEN NaN
    ELSE IF IsTerm(a) \/ IsTerm(b) THEN Term(3, a, b)
    ELSE IF IsInf(a) \/ IsInf(b)
         THEN (IF Sgn(a) * Sgn(b) = 0 THEN NaN ELSE <<0, Sgn(a) * Sgn(b), 0>>)
    ELSE Rat(3, a, b, a[2] * b[2], a[3] * b[3])

\* a / b (the evaluator never divides by zero; IEEE gives x/0 = inf, 0/0 = NaN)
FDiv(a, b) ==
    IF IsNaN(a) \/ IsNaN(b) THEN NaN
    ELSE IF IsTerm(a) \/ IsTerm(b) THEN Term(4, a, b)
    ELSE IF IsInf(a) /\ IsInf(b) THEN NaN
    ELSE IF IsInf(a) THEN <<0, (IF Sgn(b) < 0 THEN -a[2] ELSE a[2]), 0>>
    ELSE IF IsInf(b) THEN Zero
    ELSE IF b[2] = 0 THEN (IF a[2] = 0 THEN NaN ELSE <<0, Sgn(a), 0>>)
    ELSE Rat(4, a, b, a[2] * b[3], a[3] * b[2])

\* acc * n^k for k >= 0, or 0 as soon as a product exceeds ExactMax (|n| >= 2).
RECURSIVE IntPowAcc(_, _, _)
IntPowAcc(n, k, acc) ==
    IF k = 0 THEN acc
    ELSE IF Abs(acc * n) > ExactMax THEN 0
    ELSE IntPowAcc(n, k - 1, acc * n)

\* n^k for k >= 0, or 0 when |n| >= 2 and the power exceeds ExactMax.
IntPow(n, k) ==
    IF k = 0 THEN 1
    ELSE IF n = 0 THEN 0
    ELSE IF n = 1 THEN 1
    ELSE IF n = -1 THEN (IF k % 2 = 0 THEN 1 ELSE -1)
    ELSE IntPowAcc(n, k, 1)

\* a.powf(b)
FPow(a, b) ==
    IF b = Zero THEN One
    ELSE IF a = One THEN One
    ELSE IF IsNaN(a) \/ IsNaN(b) THEN NaN
    ELSE IF IsTerm(a) \/ IsTerm(b) THEN Term(5, a, b)
    ELSE IF IsInf(b)
         THEN (IF a = <<0, -1, 1>> THEN One
               ELSE IF IsInf(a) \/ Abs(a[2]) > a[3]
                    THEN (IF b = Inf THEN Inf ELSE Zero)
               ELSE (IF b = Inf THEN Zero ELSE Inf))
    ELSE IF IsInf(a)
         THEN (IF Sgn(b) < 0 THEN Zero
               ELSE IF a = NegInf /\ IsInt(b) /\ b[2] % 2 = 1 THEN NegInf
               ELSE Inf)
    ELSE IF ~IsInt(b)
         THEN (IF a[2] < 0 THEN NaN
               ELSE IF a[2] = 0 THEN (IF Sgn(b) > 0 THEN Zero ELSE Inf)
               ELSE Term(5, a, b))
    ELSE IF a[2] = 0 THEN (IF Sgn(b) > 0 THEN Zero ELSE Inf)
    ELSE LET k == Abs(b[2])
             pn == IntPow(a[2], k)
             pd == IntPow(a[3], k)
         IN  IF pn = 0 \/ pd = 0 THEN Term(5, a, b)
             ELSE IF b[2] > 0 THEN <<0, pn, pd>>
             ELSE Rat(5, a, b, pd, pn)

\* ------------------------------------------------------------------ tokens
Number(n) == [type |-> "Number", num |-> n, op |-> ""]
Operator(c) == [type |-> "Operator", num |-> <<>>, op |-> c]
LeftParen == [type |-> "LeftParen", num |-> <<>>, op |-> ""]
RightParen == [type |-> "RightParen", num |-> <<>>, op |-> ""]

Digits == <<"0", "1", "2", "3", "4", "5", "6", "7", "8", "9">>
DigitChars == {Digits[i] : i \in 1..10}
OpChars == {"+", "-", "*", "/", "^"}

is_ascii_digit(c) == c \in DigitChars
DigitVal(c) == (CHOOSE i \in 1..10 : Digits[i] = c) - 1

\* the pattern '0'..='9' | '.' that starts and continues a number run
IsNumberChar(c) == is_ascii_digit(c) \/ c = "."

\* ---------------------------------------------------------------- tokenize
\* The inner loop of a number run: the index after the last character of the
\* run of digits and dots that starts at i.
RECURSIVE RunEnd(_, _)
RunEnd(input, i) ==
    IF i <= Len(input) /\ IsNumberChar(input[i]) THEN RunEnd(input, i + 1) ELSE i

RECURSIVE DigitsVal(_)
DigitsVal(s) ==
    IF s = <<>> THEN 0 ELSE DigitsVal(SubSeq(s, 1, Len(s) - 1)) * 10 + DigitVal(s[Len(s)])

RECURSIVE Pow10(_)
Pow10(k) == IF k = 0 THEN 1 ELSE 10 * Pow10(k - 1)

\* number.parse::<f64>() on a run of digits and dots: Ok for digits with at
\* most one dot and at least one digit, Err otherwise.
ParseF64(number) ==
    LET dots == {i \in 1..Len(number) : number[i] = "."}
        digs == SelectSeq(number, is_ascii_digit)
    IN  IF Cardinality(dots) > 1 \/ digs = <<>> THEN [ok |-> FALSE, val |-> NaN]
        ELSE LET frac == IF dots = {} THEN 0
                         ELSE Len(number) - (CHOOSE i \in dots : TRUE)
                 g == Gcd(DigitsVal(digs), Pow10(frac))
             IN  [ok |-> TRUE,
                  val |-> <<0, DigitsVal(digs) \div g, Pow10(frac) \div g>>]

\* A variant of TokenizeChar that gives up the scan at a character it does
\* not recognise.
TokenizeCharStop(input, i) ==
    LET c == input[i]
    IN  IF IsNumberChar(c)
        THEN LET e == RunEnd(input, i)
                 number == SubSeq(input, i, e - 1)
                 r == ParseF64(number)
             IN  IF r.ok
                 THEN [push |-> <<Number(r.val)>>, err |-> <<>>, next |-> e]
                 ELSE [push |-> <<>>, err |-> <<<<"Invalid number: ">> \o number>>,
                       next |-> e]
        ELSE IF c \in OpChars
        THEN [push |-> <<Operator(c)>>, err |-> <<>>, next |-> i + 1]
        ELSE IF c = "("
        THEN [push |-> <<LeftParen>>, err |-> <<>>, next |-> i + 1]
        ELSE IF c = ")"
        THEN [push |-> <<RightParen>>, err |-> <<>>, next |-> i + 1]
        ELSE IF c = " " \/ c = "\t"
        THEN [push |-> <<>>, err |-> <<>>, next |-> i + 1]
        ELSE [push |-> <<>>, err |-> <<<<"Invalid character: ", c>>>>,
              next |-> Len(input) + 1]

\* One iteration of the outer loop of tokenize at character pos of input:
\* the tokens pushed, the diagnostics printed and the next position.
TokenizeChar(input, i) ==
    LET c == input[i]
    IN  IF IsNumberChar(c)
        THEN LET e == RunEnd(input, i)
                 number == SubSeq(input, i, e - 1)
                 r == ParseF64(number)
             IN  IF r.ok
                 THEN [push |-> <<Number(r.val)>>, err |-> <<>>, next |-> e]
                 ELSE [push |-> <<>>, err |-> <<<<"Invalid number: ">> \o number>>,
                       next |-> e]
        ELSE IF c \in OpChars
        THEN [push |-> <<Operator(c)>>, err |-> <<>>, next |-> i + 1]
        ELSE IF c = "("
        THEN [push |-> <<LeftParen>>, err |-> <<>>, next |-> i + 1]
        ELSE IF c = ")"
        THEN [push |-> <<RightParen>>, err |-> <<>>, next |-> i + 1]
        ELSE IF c = " " \/ c = "\t"
        THEN [push |-> <<>>, err |-> <<>>, next |-> i + 1]
        ELSE [push |-> <<>>, err |-> <<<<"Invalid character: ", c>>>>, next |-> i + 1]

\* tokenize(input) from character i on, as the loop computes it.
RECURSIVE TokenizeFrom(_, _, _)
TokenizeFrom(input, i, acc) ==
    IF i > Len(input) THEN acc
    ELSE LET r == TokenizeChar(input, i)
         IN  TokenizeFrom(input, r.next,
                          [tokens |-> acc.tokens \o r.push, err |-> acc.err \o r.err])

tokenize(input) == TokenizeFrom(input, 1, [tokens |-> <<>>, err |-> <<>>])

\* -------------------------------------------------------- infix_to_postfix
get_precedence(op) ==
    IF op = "+" \/ op = "-" THEN 1
    ELSE IF op = "*" \/ op = "/" THEN 2
    ELSE IF op = "^" THEN 3
    ELSE 0

\* A variant of is_left_associative that forgets that ^ groups to the right.
is_left_associative_all(op) == TRUE

is_left_associative(op) ==
    IF op \in {"+", "-", "*", "/"} THEN TRUE
    ELSE IF op = "^" THEN FALSE
    ELSE TRUE

\* A variant of PopsBefore that compares with < for both associativities.
PopsBeforeStrict(op, stack_op) == get_precedence(op) < get_precedence(stack_op)

\* The condition under which the operator on top of the stack is popped
\* before op is pushed.
PopsBefore(op, stack_op) ==
    \/ is_left_associative(op) /\ get_precedence(op) <= get_precedence(stack_op)
    \/ ~is_left_associative(op) /\ get_precedence(op) < get_precedence(stack_op)

Last(s) == s[Len(s)]
Pop(s) == SubSeq(s, 1, Len(s) - 1)

\* The while loop of the Operator arm: pop operators that bind at least as
\* tightly as op from the stack (its top is its last element) into the output.
RECURSIVE PopOperators(_, _, _)
PopOperators(op, out, stk) ==
    IF stk # <<>> /\ Last(stk).type = "Operator" /\ PopsBefore(op, Last(stk).op)
    THEN PopOperators(op, Append(out, Last(stk)), Pop(stk))
    ELSE [out |-> out, stk |-> stk]

\* A variant of PopToLeftParen that drops what it pops.
RECURSIVE PopToLeftParenDiscard(_, _)
PopToLeftParenDiscard(out, stk) ==
    IF stk # <<>> /\ Last(stk).type # "LeftParen"
    THEN PopToLeftParenDiscard(out, Pop(stk))
    ELSE [out |-> out, stk |-> stk]

\* The while loop of the RightParen arm: pop into the output until the top
\* of the stack is a LeftParen or the stack is empty.
RECURSIVE PopToLeftParen(_, _)
PopToLeftParen(out, stk) ==
    IF stk # <<>> /\ Last(stk).type # "LeftParen"
    THEN PopToLeftParen(Append(out, Last(stk)), Pop(stk))
    ELSE [out |-> out, stk |-> stk]

\* The line eprintln!("Mismatched parenthesis") writes.
Mismatched == <<"Mismatched parenthesis">>

\* A variant of ConvertToken that does not report an unmatched RightParen.
ConvertTokenSilent(out, stk, token) ==
    IF token.type = "Number"
    THEN [out |-> Append(out, token), stk |-> stk, err |-> <<>>]
    ELSE IF token.type = "Operator"
    THEN LET r == PopOperators(token.op, out, stk)
         IN  [out |-> r.out, stk |-> Append(r.stk, Operator(token.op)), err |-> <<>>]
    ELSE IF token.type = "LeftParen"
    THEN [out |-> out, stk |-> Append(stk, token), err |-> <<>>]
    ELSE LET r == PopToLeftParen(out, stk)
         IN  IF r.stk # <<>> /\ Last(r.stk).type = "LeftParen"
             THEN [out |-> r.out, stk |-> Pop(r.stk), err |-> <<>>]
             ELSE [out |-> r.out, stk |-> r.stk, err |-> <<>>]

\* One iteration of the for loop of infix_to_postfix on token.
ConvertToken(out, stk, token) ==
    IF token.type = "Number"
    THEN [out |-> Append(out, token), stk |-> stk, err |-> <<>>]
    ELSE IF token.type = "Operator"
    THEN LET r == PopOperators(token.op, out, stk)
         IN  [out |-> r.out, stk |-> Append(r.stk, Operator(token.op)), err |-> <<>>]
    ELSE IF token.type = "LeftParen"
    THEN [out |-> out, stk |-> Append(stk, token), err |-> <<>>]
    ELSE LET r == PopToLeftParen(out, stk)
         IN  IF r.stk # <<>> /\ Last(r.stk).type = "LeftParen"
             THEN [out |-> r.out, stk |-> Pop(r.stk), err |-> <<>>]
             ELSE [out |-> r.out, stk |-> r.stk, err |-> <<Mismatched>>]

\* A variant of DrainToken without the `continue`: a LeftParen is reported
\* and pushed to the output all the same.
DrainTokenNoContinue(out, stk) ==
    [out |-> Append(out, Last(stk)), stk |-> Pop(stk),
     err |-> IF Last(stk).type = "LeftParen" THEN <<Mismatched>> ELSE <<>>]

\* One iteration of the final loop, on a non-empty stack: pop the top, report
\* and drop a LeftParen, push anything else to the output.
DrainToken(out, stk) ==
    IF Last(stk).type = "LeftParen"
    THEN [out |-> out, stk |-> Pop(stk), err |-> <<Mismatched>>]
    ELSE [out |-> Append(out, Last(stk)), stk |-> Pop(stk), err |-> <<>>]

RECURSIVE DrainFrom(_)
DrainFrom(s) ==
    IF s.stk = <<>> THEN s
    ELSE LET r == DrainToken(s.out, s.stk)
         IN  DrainFrom([out |-> r.out, stk |-> r.stk, err |-> s.err \o r.err])

RECURSIVE ConvertFrom(_, _, _)
ConvertFrom(tokens, i, s) ==
    IF i > Len(tokens) THEN DrainFrom(s)
    ELSE LET r == ConvertToken(s.out, s.stk, tokens[i])
         IN  ConvertFrom(tokens, i + 1,
                         [out |-> r.out, stk |-> r.stk, err |-> s.err \o r.err])

infix_to_postfix(tokens) ==
    ConvertFrom(tokens, 1, [out |-> <<>>, stk |-> <<>>, err |-> <<>>])

\* -------------------------------------------------------- evaluate_postfix
Ok(v) == [kind |-> "Ok", val |-> v, msg |-> "", arg |-> ""]
Err(m, a) == [kind |-> "Err", val |-> <<>>, msg |-> m, arg |-> a]
None == [kind |-> "None", val |-> <<>>, msg |-> "", arg |-> ""]

\* b == 0.0
IsZero(b) == b = Zero

\* A variant of ApplyOperator that divides without looking at b.
ApplyOperatorUnchecked(op, a, b) ==
    IF op = "+" THEN Ok(FAdd(a, b))
    ELSE IF op = "-" THEN Ok(FSub(a, b))
    ELSE IF op = "*" THEN Ok(FMul(a, b))
    ELSE IF op = "/" THEN Ok(FDiv(a, b))
    ELSE IF op = "^" THEN Ok(FPow(a, b))
    ELSE Err("Unknown operator", op)

\* The match on op: the value pushed, or the error returned.
ApplyOperator(op, a, b) ==
    IF op = "+" THEN Ok(FAdd(a, b))
    ELSE IF op = "-" THEN Ok(FSub(a, b))
    ELSE IF op = "*" THEN Ok(FMul(a, b))
    ELSE IF op = "/"
         THEN (IF IsZero(b) THEN Err("Division by zero", "") ELSE Ok(FDiv(a, b)))
    ELSE IF op = "^" THEN Ok(FPow(a, b))
    ELSE Err("Unknown operator", op)

\* A variant of EvaluateToken that pops the right operand before it counts
\* the operands.
EvaluateTokenPopFirst(stk, token) ==
    IF token.type = "Number"
    THEN [stk |-> Append(stk, token.num), ret |-> None]
    ELSE IF token.type = "Operator"
    THEN IF Len(stk) < 2
         THEN [stk |-> IF stk = <<>> THEN stk ELSE Pop(stk),
               ret |-> Err("Not enough operands for operator", token.op)]
         ELSE LET b == Last(stk)
                  a == Last(Pop(stk))
                  r == ApplyOperator(token.op, a, b)
              IN  IF r.kind = "Err" THEN [stk |-> Pop(Pop(stk)), ret |-> r]
                  ELSE [stk |-> Append(Pop(Pop(stk)), r.val), ret |-> None]
    ELSE [stk |-> stk, ret |-> Err("Unexpected token in postfix", token.type)]

\* One iteration of the for loop of evaluate_postfix on token: the new stack
\* and None, or the stack as the return found it and the error returned.
EvaluateToken(stk, token) ==
    IF token.type = "Number"
    THEN [stk |-> Append(stk, token.num), ret |-> None]
    ELSE IF token.type = "Operator"
    THEN IF Len(stk) < 2
         THEN [stk |-> stk, ret |-> Err("Not enough operands for operator", token.op)]
         ELSE LET b == Last(stk)
                  a == Last(Pop(stk))
                  r == ApplyOperator(token.op, a, b)
              IN  IF r.kind = "Err" THEN [stk |-> Pop(Pop(stk)), ret |-> r]
                  ELSE [stk |-> Append(Pop(Pop(stk)), r.val), ret |-> None]
    ELSE [stk |-> stk, ret |-> Err("Unexpected token in postfix", token.type)]

\* A variant of EvaluateEnd that only refuses an empty stack.
EvaluateEndNonEmpty(stk) ==
    IF Len(stk) = 0 THEN Err("Invalid expression", "") ELSE Ok(Last(stk))

\* The end of evaluate_postfix: the stack must hold exactly one value.
EvaluateEnd(stk) ==
    IF Len(stk) # 1 THEN Err("Invalid expression", "") ELSE Ok(Last(stk))

RECURSIVE EvaluateFrom(_, _, _)
EvaluateFrom(postfix, i, stk) ==
    IF i > Len(postfix) THEN EvaluateEnd(stk)
    ELSE LET r == EvaluateToken(stk, postfix[i])
         IN  IF r.ret.kind = "Err" THEN r.ret
             ELSE EvaluateFrom(postfix, i + 1, r.stk)

evaluate_postfix(postfix) == EvaluateFrom(postfix, 1, <<>>)

\* -------------------------------------------------------------------- main
\* char::is_whitespace on the characters of the model's texts
IsWhitespace(c) == c \in {" ", "\t", "\n", "\r"}

RECURSIVE TrimStart(_)
TrimStart(s) == IF s # <<>> /\ IsWhitespace(s[1]) THEN TrimStart(Tail(s)) ELSE s

RECURSIVE TrimEnd(_)
TrimEnd(s) == IF s # <<>> /\ IsWhitespace(Last(s)) THEN TrimEnd(Pop(s)) ELSE s

\* str::trim
Trim(s) == TrimEnd(TrimStart(s))

Upper == <<"A", "B", "C", "D", "E", "F", "G", "H", "I", "J", "K", "L", "M",
           "N", "O", "P", "Q", "R", "S", "T", "U", "V", "W", "X", "Y", "Z">>
Lower == <<"a", "b", "c", "d", "e", "f", "g", "h", "i", "j", "k", "l", "m",
           "n", "o", "p", "q", "r", "s", "t", "u", "v", "w", "x", "y", "z">>

to_ascii_lowercase(c) ==
    IF \E i \in 1..26 : Upper[i] = c THEN Lower[CHOOSE i \in 1..26 : Upper[i] = c]
    ELSE c

eq_ignore_ascii_case(s, t) ==
    /\ Len(s) = Len(t)
    /\ \A i \in 1..Len(s) : to_ascii_lowercase(s[i]) = to_ascii_lowercase(t[i])

Quit == <<"q", "u", "i", "t">>

\* input.eq_ignore_ascii_case("quit")
IsQuit(input) == eq_ignore_ascii_case(input, Quit)

Line(text, val) == [text |-> text, val |-> val]
Banner == <<Line("Rust calculator", <<>>),
            Line("Enter expression to calculate (or 'quit' to exit)", <<>>)>>
Prompt == Line("> ", <<>>)

\* What the match on evaluate_postfix's result writes: a line on standard
\* output for Ok, a line on standard error for Err.
PrintOut(r) == IF r.kind = "Ok" THEN <<Line("res = ", r.val)>> ELSE <<>>
PrintErr(r) == IF r.kind = "Ok" THEN <<>> ELSE <<<<"Error: ", r.msg, r.arg>>>>

\* ------------------------------------------------------------------- state
VARIABLES
    pc,              \* where control is: read, tokenize, tokenized, convert,
                     \* converted, evaluate, evaluated, exit
    stdin,           \* the lines of standard input
    rd,              \* how many times read_line was called
    buffer,          \* main's String `input`
    input,           \* the text given to tokenize (main's trimmed `input`)
    pos,             \* tokenize: index of the character chars.peek() gives
    tokens,          \* tokenize's `tokens`, then infix_to_postfix's argument
    ti,              \* infix_to_postfix: index of the next token of the for loop
    output_queue,    \* infix_to_postfix's output_queue
    operator_stack,  \* infix_to_postfix's operator_stack, top last
    postfix,         \* evaluate_postfix's argument
    pi,              \* evaluate_postfix: index of the next token of the for loop
    stack,           \* evaluate_postfix's stack, top last
    result,          \* evaluate_postfix's return value, None before it returns
    stdout,          \* the lines written to standard output
    stderr           \* the lines written to standard error

vars == <<pc, stdin, rd, buffer, input, pos, tokens, ti, output_queue,
          operator_stack, postfix, pi, stack, result, stdout, stderr>>

ioVars == <<stdin, rd, buffer, stdout>>
tokVars == <<input, pos, tokens>>
convVars == <<ti, output_queue, operator_stack>>
evalVars == <<postfix, pi, stack, result>>

\* ----------------------------------------------------------------- actions
\* tokenize: one iteration of the outer while loop.
Tokenize ==
    /\ pc = "tokenize"
    /\ pos <= Len(input)
    /\ LET r == TokenizeChar(input, pos)
       IN  /\ tokens' = tokens \o r.push
           /\ stderr' = stderr \o r.err
           /\ pos' = r.next
    /\ UNCHANGED <<pc, input, ioVars, convVars, evalVars>>

\* tokenize: chars.peek() is None, the function returns tokens.
TokenizeReturn ==
    /\ pc = "tokenize"
    /\ pos > Len(input)
    /\ pc' = "tokenized"
    /\ UNCHANGED <<ioVars, tokVars, convVars, evalVars, stderr>>

\* main calls infix_to_postfix(tokens), which creates its two vectors.
CallInfixToPostfix ==
    /\ pc = "tokenized"
    /\ pc' = "convert"
    /\ ti' = 1
    /\ output_queue' = <<>>
    /\ operator_stack' = <<>>
    /\ UNCHANGED <<ioVars, tokVars, evalVars, stderr>>

\* infix_to_postfix: one iteration of the for loop.
Convert ==
    /\ pc = "convert"
    /\ ti <= Len(tokens)
    /\ LET r == ConvertToken(output_queue, operator_stack, tokens[ti])
       IN  /\ output_queue' = r.out
           /\ operator_stack' = r.stk
           /\ stderr' = stderr \o r.err
    /\ ti' = ti + 1
    /\ UNCHANGED <<pc, ioVars, tokVars, evalVars>>

\* infix_to_postfix: one iteration of the final while loop.
Drain ==
    /\ pc = "convert"
    /\ ti > Len(tokens)
    /\ operator_stack # <<>>
    /\ LET r == DrainToken(output_queue, operator_stack)
       IN  /\ output_queue' = r.out
           /\ operator_stack' = r.stk
           /\ stderr' = stderr \o r.err
    /\ UNCHANGED <<pc, ti, ioVars, tokVars, evalVars>>

\* infix_to_postfix: the stack is empty, the function returns output_queue.
ConvertReturn ==
    /\ pc = "convert"
    /\ ti > Len(tokens)
    /\ operator_stack = <<>>
    /\ pc' = "converted"
    /\ UNCHANGED <<ioVars, tokVars, convVars, evalVars, stderr>>

\* main calls evaluate_postfix(postfix), which creates its stack.
CallEvaluatePostfix ==
    /\ pc = "converted"
    /\ pc' = "evaluate"
    /\ postfix' = output_queue
    /\ pi' = 1
    /\ stack' = <<>>
    /\ result' = None
    /\ UNCHANGED <<ioVars, tokVars, convVars, stderr>>

\* evaluate_postfix: one iteration of the for loop, which may return an Err.
Evaluate ==
    /\ pc = "evaluate"
    /\ pi <= Len(postfix)
    /\ LET r == EvaluateToken(stack, postfix[pi])
       IN  /\ stack' = r.stk
           /\ result' = r.ret
           /\ pc' = IF r.ret.kind = "Err" THEN "evaluated" ELSE "evaluate"
           /\ pi' = IF r.ret.kind = "Err" THEN pi ELSE pi + 1
    /\ UNCHANGED <<postfix, ioVars, tokVars, convVars, stderr>>

\* evaluate_postfix: the for loop is over, the function returns.
EvaluateReturn ==
    /\ pc = "evaluate"
    /\ pi > Len(postfix)
    /\ result' = EvaluateEnd(stack)
    /\ stack' = IF Len(stack) = 1 THEN <<>> ELSE stack
    /\ pc' = "evaluated"
    /\ UNCHANGED <<postfix, pi, ioVars, tokVars, convVars, stderr>>

\* The line read_line appends to the buffer at the k-th call: a line of
\* standard input, or nothing at end of input.
ReadLineAt(k) == IF k <= Len(stdin) THEN stdin[k] ELSE <<>>

\* A variant of ReadInto without input.clear(): read_line appends.
ReadIntoNoClear(buf, line) == buf \o line

\* input.clear(); read_line(&mut input)
ReadInto(buf, line) == line

\* main: the head of the loop body, from the prompt to the call of tokenize.
ReadLine ==
    /\ pc = "read"
    /\ rd < Len(stdin) + MaxEof
    /\ rd' = rd + 1
    /\ stdout' = Append(stdout, Prompt)
    /\ LET read == ReadInto(buffer, ReadLineAt(rd + 1))
           trimmed == Trim(read)
       IN  /\ buffer' = read
           /\ input' = trimmed
           /\ pc' = IF IsQuit(trimmed) THEN "exit" ELSE "tokenize"
           /\ pos' = IF IsQuit(trimmed) THEN pos ELSE 1
           /\ tokens' = IF IsQuit(trimmed) THEN tokens ELSE <<>>
    /\ UNCHANGED <<stdin, convVars, evalVars, stderr>>

\* main: the match on the result of evaluate_postfix, the end of the loop body.
PrintResult ==
    /\ pc = "evaluated"
    /\ stdout' = stdout \o PrintOut(result)
    /\ stderr' = stderr \o PrintErr(result)
    /\ pc' = "read"
    /\ UNCHANGED <<stdin, rd, buffer, tokVars, convVars, evalVars>>

\* ------------------------------------------------------------------ inputs
\* All sequences of at most n elements of S.
SeqsUpTo(S, n) == UNION {[1..k -> S] : k \in 0..n}

LiteralChars == {Digits[k + 1] : k \in 0..MaxNum}

\* The well-formed infix expressions of exactly n tokens, as text: a literal,
\* a parenthesised expression, or two expressions around a binary operator.
RECURSIVE Expr(_)
Expr(n) ==
    IF n = 1 THEN {<<c>> : c \in LiteralChars}
    ELSE IF n < 3 THEN {}
    ELSE {<<"(">> \o e \o <<")">> : e \in Expr(n - 2)}
         \cup UNION {{l \o <<o>> \o r : l \in Expr(i), o \in OpChars, r \in Expr(n - 1 - i)}
                     : i \in 1..(n - 2)}

Expressions == UNION {Expr(n) : n \in 1..MaxLen}

\* Well-formed expressions named in the specification and the tests.
Examples ==
    {<<"2", "^", "3", "^", "2">>,
     <<"8", "-", "3", "-", "2">>,
     <<"2", "+", "2", "*", "3">>,
     <<"(", "2", "+", "2", ")", "*", "3">>,
     <<"5", "/", "(", "2", "-", "2", ")">>,
     <<"2", "*", "3", "+", "4">>,
     <<"9", "/", "3", "/", "3">>,
     <<"5", "/", "0">>,
     <<"2", " ", "+", " ", "2", " ", "*", " ", "3">>,
     <<"(", "2", " ", "+", " ", "2", ")", " ", "*", " ", "3">>,
     <<"1", "2", ".", "5", "+", ".", "5">>}

\* Texts with several-digit and malformed literals, blanks and bad characters.
SampleTexts ==
    {<<"2", " ", "+", " ", "2">>,
     <<"1", ".", "2", ".", "3">>,
     <<"1", "2", ".", "5", "+", ".", "5">>,
     <<"5", ".">>,
     <<"3", " ", "$", " ", "4">>,
     <<"(", "2", " ", "+", " ", "2", ")", " ", "*", " ", "3">>}

LineChars == {"0", "2", "+", "-", "/", "(", ")", " "}

TextChars == {"0", "1", "2", ".", "+", "-", "*", "/", "^", "(", ")", " ", "\t", "x"}

\* Lines typed at the prompt, without their newline.
SampleLines ==
    {<<"q", "u", "i", "t">>,
     <<" ", "Q", "u", "i", "t", " ">>,
     <<"q", "u", "i", "t", " ", "1">>,
     <<>>,
     <<"(", ")">>,
     <<"2", " ", "2">>,
     <<"5", " ", "/", " ", "0">>,
     <<"-", "5">>,
     <<"2", " ", "+", " ", "+", " ", "3">>,
     <<"+">>,
     <<"-", " ", "5", " ", "5">>,
     <<"-", "5", "/", "0">>,
     <<"2", " ", "$", " ", "3">>,
     <<"(", "2">>,
     <<"2", " ", "+", " ", "2">>}

\* Tokens given to infix_to_postfix directly.
ConvertTokens ==
    {Number(Num(k)) : k \in 1..2} \cup {Operator(c) : c \in OpChars}
        \cup {LeftParen, RightParen}

\* The token sequences of the examples and of some unbalanced texts.
SampleTokens ==
    {tokenize(x).tokens : x \in Examples \cup {<<"(", "(", "2", "+", "3", ")", "*", "4">>,
                                               <<"2", "+", "3", ")", "*", "4", ")">>,
                                               <<")", "2", "*", "(", "3", "+", "4">>}}

\* ---------------------------------------------------------- specifications
\* main from its first line to the head of the loop, on any standard input.
Init ==
    /\ pc = "read"
    /\ stdin \in SeqsUpTo({l \o <<"\n">> : l \in SampleLines}, MaxLines)
    /\ rd = 0 /\ buffer = <<>> /\ stdout = Banner /\ stderr = <<>>
    /\ input = <<>> /\ pos = 1 /\ tokens = <<>>
    /\ ti = 1 /\ output_queue = <<>> /\ operator_stack = <<>>
    /\ postfix = <<>> /\ pi = 1 /\ stack = <<>> /\ result = None

Pipeline ==
    \/ Tokenize
    \/ TokenizeReturn
    \/ CallInfixToPostfix
    \/ Convert
    \/ Drain
    \/ ConvertReturn
    \/ CallEvaluatePostfix
    \/ Evaluate
    \/ EvaluateReturn

Next ==
    \/ ReadLine
    \/ Pipeline
    \/ PrintResult

\* The program: the read-evaluate-print loop on sample lines.
Spec == Init /\ [][Next]_vars

\* evaluate_postfix(infix_to_postfix(tokenize(expr))) on a well-formed expr.
InitPipeline ==
    /\ pc = "tokenize"
    /\ input \in Expressions \cup Examples
    /\ pos = 1 /\ tokens = <<>>
    /\ stdin = <<>> /\ rd = 0 /\ buffer = <<>> /\ stdout = <<>> /\ stderr = <<>>
    /\ ti = 1 /\ output_queue = <<>> /\ operator_stack = <<>>
    /\ postfix = <<>> /\ pi = 1 /\ stack = <<>> /\ result = None

\* The program runs whenever it can: it is one sequential thread.
FairSpec == Spec /\ WF_vars(Next)

SpecPipeline == InitPipeline /\ [][Pipeline]_vars

\* The pipeline on any line, well-formed or not.
InitLines ==
    /\ pc = "tokenize"
    /\ input \in SeqsUpTo(LineChars, MaxLine) \cup {Trim(l) : l \in SampleLines}
    /\ pos = 1 /\ tokens = <<>>
    /\ stdin = <<>> /\ rd = 0 /\ buffer = <<>> /\ stdout = <<>> /\ stderr = <<>>
    /\ ti = 1 /\ output_queue = <<>> /\ operator_stack = <<>>
    /\ postfix = <<>> /\ pi = 1 /\ stack = <<>> /\ result = None

SpecLines == InitLines /\ [][Pipeline]_vars

\* tokenize on any text.
InitTokenize ==
    /\ pc = "tokenize"
    /\ input \in SeqsUpTo(TextChars, MaxText) \cup SampleTexts
    /\ pos = 1 /\ tokens = <<>>
    /\ stdin = <<>> /\ rd = 0 /\ buffer = <<>> /\ stdout = <<>> /\ stderr = <<>>
    /\ ti = 1 /\ output_queue = <<>> /\ operator_stack = <<>>
    /\ postfix = <<>> /\ pi = 1 /\ stack = <<>> /\ result = None

NextTokenize == Tokenize \/ TokenizeReturn

SpecTokenize == InitTokenize /\ [][NextTokenize]_vars

\* infix_to_postfix on any token sequence.
InitConvert ==
    /\ pc = "convert"
    /\ tokens \in SeqsUpTo(ConvertTokens, MaxTokens) \cup SampleTokens
    /\ input = <<>> /\ pos = 1
    /\ stdin = <<>> /\ rd = 0 /\ buffer = <<>> /\ stdout = <<>> /\ stderr = <<>>
    /\ ti = 1 /\ output_queue = <<>> /\ operator_stack = <<>>
    /\ postfix = <<>> /\ pi = 1 /\ stack = <<>> /\ result = None

NextConvert == Convert \/ Drain \/ ConvertReturn

SpecConvert == InitConvert /\ [][NextConvert]_vars

\* ================================================================== claims
Range(q) == {q[i] : i \in 1..Len(q)}
Count(q, x) == Cardinality({i \in 1..Len(q) : q[i] = x})
Max(S) == CHOOSE x \in S : \A y \in S : y <= x
Min(S) == CHOOSE x \in S : \A y \in S : x <= y
Text2p2 == <<"2", " ", "+", " ", "2">>
N(k) == Number(Num(k))

\* --- the tokens of a text, position by position ---------------------------
\* A number run starts at i and ends at the last numeric character before
\* the next character that is not one.
StartsRun(t, i) == IsNumberChar(t[i]) /\ (i = 1 \/ ~IsNumberChar(t[i - 1]))
RunLast(t, i) == Max({j \in i..Len(t) : \A k \in i..j : IsNumberChar(t[k])})

RECURSIVE SumTo(_, _)
SumTo(f, n) == IF n = 0 THEN 0 ELSE f[n] + SumTo(f, n - 1)

\* The decimal value of a run with at most one dot and at least one digit:
\* each digit times the power of ten of its place, over the power of ten of
\* the number of digits after the dot.
DecimalValue(run) ==
    LET isDigit == [i \in 1..Len(run) |-> run[i] \in DigitChars]
        after(i) == Cardinality({j \in (i + 1)..Len(run) : isDigit[j]})
        frac == IF \E i \in 1..Len(run) : run[i] = "."
                THEN after(CHOOSE i \in 1..Len(run) : run[i] = ".") ELSE 0
        n == SumTo([i \in 1..Len(run) |->
                       IF isDigit[i] THEN DigitVal(run[i]) * Pow10(after(i)) ELSE 0], Len(run))
        g == Gcd(n, Pow10(frac))
    IN  <<0, n \div g, Pow10(frac) \div g>>

Parses(run) ==
    /\ Cardinality({i \in 1..Len(run) : run[i] = "."}) <= 1
    /\ \E i \in 1..Len(run) : run[i] \in DigitChars

\* The tokens that position i of text t contributes.
TokensAt(t, i) ==
    IF t[i] \in OpChars THEN <<Operator(t[i])>>
    ELSE IF t[i] = "(" THEN <<LeftParen>>
    ELSE IF t[i] = ")" THEN <<RightParen>>
    ELSE IF StartsRun(t, i) /\ Parses(SubSeq(t, i, RunLast(t, i)))
    THEN <<Number(DecimalValue(SubSeq(t, i, RunLast(t, i))))>>
    ELSE <<>>

\* The tokens of positions 1..n of t, in order.
RECURSIVE TokensUpTo(_, _)
TokensUpTo(t, n) == IF n = 0 THEN <<>> ELSE TokensUpTo(t, n - 1) \o TokensAt(t, n)

\* --- the value of an infix expression, by its grammar ----------------------
\* Parenthesis depth of position i of text t.
DepthAt(t, i) ==
    Cardinality({j \in 1..(i - 1) : t[j] = "("}) - Cardinality({j \in 1..(i - 1) : t[j] = ")"})

\* The positions of the operators of S outside every parenthesis.
TopOps(t, S) == {i \in 1..Len(t) : t[i] \in S /\ DepthAt(t, i) = 0}

RefValue(v) == [kind |-> "value", val |-> v]
RefDivZero == [kind |-> "divzero", val |-> <<>>]
RefMalformed == [kind |-> "malformed", val |-> <<>>]

RefApply(o, a, b) ==
    IF a.kind = "malformed" \/ b.kind = "malformed" THEN RefMalformed
    ELSE IF a.kind = "divzero" \/ b.kind = "divzero" THEN RefDivZero
    ELSE IF o = "+" THEN RefValue(FAdd(a.val, b.val))
    ELSE IF o = "-" THEN RefValue(FSub(a.val, b.val))
    ELSE IF o = "*" THEN RefValue(FMul(a.val, b.val))
    ELSE IF o = "^" THEN RefValue(FPow(a.val, b.val))
    ELSE IF b.val = Zero THEN RefDivZero
    ELSE RefValue(FDiv(a.val, b.val))

\* The expression splits at its last top-level + or -, else at its last
\* top-level * or /, else at its first top-level ^; otherwise it is a
\* parenthesised expression or a literal; blanks around it do not count.
RECURSIVE RefEval(_)
RefEval(t) ==
    LET add == TopOps(t, {"+", "-"})
        mul == TopOps(t, {"*", "/"})
        pow == TopOps(t, {"^"})
        k == IF add # {} THEN Max(add)
             ELSE IF mul # {} THEN Max(mul)
             ELSE IF pow # {} THEN Min(pow)
             ELSE 0
    IN  IF t = <<>> THEN RefMalformed
        ELSE IF t[1] \in {" ", "\t"} \/ t[Len(t)] \in {" ", "\t"} THEN RefEval(Trim(t))
        ELSE IF k # 0
        THEN IF k = 1 \/ k = Len(t) THEN RefMalformed
             ELSE RefApply(t[k], RefEval(SubSeq(t, 1, k - 1)),
                           RefEval(SubSeq(t, k + 1, Len(t))))
        ELSE IF t[1] = "(" /\ t[Len(t)] = ")" THEN RefEval(SubSeq(t, 2, Len(t) - 1))
        ELSE IF (\A i \in 1..Len(t) : IsNumberChar(t[i])) /\ Parses(t)
        THEN RefValue(DecimalValue(t))
        ELSE RefMalformed

\* C1: for a well-formed expression without a division by zero the pipeline
\* returns Ok with the value the grammar gives it (* and / bind tighter than
\* + and -, ^ tighter than both; + - * / group to the left, ^ to the right),
\* and for no well-formed expression does it return "Not enough operands" or
\* "Invalid expression"; 2^3^2 is 512, 8-3-2 is 3, 2 + 2 * 3 is 8 and
\* (2 + 2) * 3 is 12.
C1_PipelineValue ==
    pc = "evaluated" /\ RefEval(input).kind # "malformed" =>
        /\ RefEval(input).kind = "value" => result = Ok(RefEval(input).val)
        /\ result.msg \notin {"Not enough operands for operator", "Invalid expression"}
        /\ input = <<"2", "^", "3", "^", "2">> => result = Ok(Num(512))
        /\ input = <<"8", "-", "3", "-", "2">> => result = Ok(Num(3))
        /\ input = <<"2", " ", "+", " ", "2", " ", "*", " ", "3">> => result = Ok(Num(8))
        /\ input = <<"(", "2", " ", "+", " ", "2", ")", " ", "*", " ", "3">>
               => result = Ok(Num(12))

C1_Witness ==
    /\ pc = "evaluated"
    /\ input = <<"2", "^", "3", "^", "2">>
    /\ result = Ok(Num(512))

\* --- the precedence table and the pop rule as the specification states them
SpecPrecedence(c) == IF c \in {"+", "-"} THEN 1 ELSE IF c \in {"*", "/"} THEN 2 ELSE 3
SpecRightAssoc(c) == c = "^"
Qualifies(o, top) ==
    \/ ~SpecRightAssoc(o) /\ SpecPrecedence(o) <= SpecPrecedence(top)
    \/ SpecRightAssoc(o) /\ SpecPrecedence(o) < SpecPrecedence(top)

\* The m-th entry of stack s from its top.
FromTop(s, m) == s[Len(s) - m + 1]

\* The length of the maximal run of qualifying operators on top of stack s.
MaxRun(o, s) ==
    CHOOSE k \in 0..Len(s) :
        /\ \A m \in 1..k : FromTop(s, m).type = "Operator" /\ Qualifies(o, FromTop(s, m).op)
        /\ k < Len(s) =>
               ~(FromTop(s, k + 1).type = "Operator" /\ Qualifies(o, FromTop(s, k + 1).op))

IsInfix3(q) ==
    /\ Len(q) = 5
    /\ q[1].type = "Number" /\ q[2].type = "Operator" /\ q[3].type = "Number"
    /\ q[4].type = "Operator" /\ q[5].type = "Number"

\* A step of infix_to_postfix on an Operator and the return on a op1 b op2 c.
C2_Step ==
    /\ (pc = "convert" /\ ti <= Len(tokens) /\ tokens[ti].type = "Operator" /\ ti' = ti + 1)
           => LET k == MaxRun(tokens[ti].op, operator_stack)
              IN  /\ output_queue' = output_queue \o [m \in 1..k |-> FromTop(operator_stack, m)]
                  /\ operator_stack' =
                         Append(SubSeq(operator_stack, 1, Len(operator_stack) - k), tokens[ti])
    /\ (pc = "convert" /\ pc' = "converted" /\ IsInfix3(tokens))
           => output_queue' =
                  IF Qualifies(tokens[4].op, tokens[2].op)
                  THEN <<tokens[1], tokens[3], tokens[2], tokens[5], tokens[4]>>
                  ELSE <<tokens[1], tokens[3], tokens[5], tokens[4], tokens[2]>>

\* C2: reading an Operator op pops into the output exactly the maximal run of
\* operators on top of the stack that op qualifies against (op left-associative
\* and of no higher precedence, or right-associative and of lower precedence),
\* stopping at a LeftParen, an empty stack or an operator that does not
\* qualify, and then pushes op; so a op1 b op2 c becomes a b op1 c op2 when
\* op2 qualifies against op1 and a b c op2 op1 otherwise.
C2_PopRule == [][C2_Step]_vars

C2_Witness ==
    /\ pc = "converted"
    /\ tokens = <<N(2), Operator("+"), N(2), Operator("*"), N(3)>>
    /\ output_queue = <<N(2), N(2), N(3), Operator("*"), Operator("+")>>

\* C3: whatever the input, the operator stack holds only Operator and
\* LeftParen tokens and the output only Number and Operator tokens, at every
\* step and in the returned sequence; (2 + 2) * 3 gives 2 2 + 3 *.
C3_StackAndOutputTypes ==
    pc \in {"convert", "converted"} =>
        /\ \A x \in Range(operator_stack) : x.type \in {"Operator", "LeftParen"}
        /\ \A x \in Range(output_queue) : x.type \in {"Number", "Operator"}
        /\ (pc = "converted"
            /\ tokens = <<LeftParen, N(2), Operator("+"), N(2), RightParen, Operator("*"), N(3)>>)
               => output_queue = <<N(2), N(2), Operator("+"), N(3), Operator("*")>>

C3_Witness ==
    /\ pc = "converted"
    /\ Count(tokens, LeftParen) = 2
    /\ Count(tokens, RightParen) = 1
    /\ Len(output_queue) = 5

\* A step of evaluate_postfix on the operator / and the final result of the
\* two example lines.
C4_Step ==
    /\ (pc = "evaluate" /\ pi <= Len(postfix) /\ postfix[pi] = Operator("/") /\ Len(stack) >= 2)
           => LET b == FromTop(stack, 1)
                  a == FromTop(stack, 2)
              IN  IF b = Zero
                  THEN pc' = "evaluated" /\ result' = Err("Division by zero", "")
                  ELSE /\ pc' = "evaluate" /\ pi' = pi + 1 /\ result' = None
                       /\ Len(stack') = Len(stack) - 1
                       /\ SubSeq(stack', 1, Len(stack) - 2) = SubSeq(stack, 1, Len(stack) - 2)
                       /\ IsFin(FromTop(stack', 1)) => FMul(FromTop(stack', 1), b) = a
    /\ (pc' = "evaluated" /\ input \in {<<"5", "/", "0">>, <<"5", "/", "(", "2", "-", "2", ")">>})
           => result' = Err("Division by zero", "")

\* C4: applying / with two values on the stack returns "Division by zero"
\* when the right operand is zero, whatever the left operand and however the
\* zero was obtained; otherwise the quotient is pushed and evaluation goes on.
\* The pipeline on 5/0 and on 5/(2-2) fails with "Division by zero".
C4_DivisionByZero == [][C4_Step]_vars

C4_Witness ==
    /\ pc = "evaluated"
    /\ postfix = <<N(0), N(2), N(2), Operator("-"), Operator("/")>>
    /\ result = Err("Division by zero", "")

\* The return of evaluate_postfix after its loop and the final state of the
\* example lines.
C5_Step ==
    /\ (pc = "evaluate" /\ pi > Len(postfix) /\ pc' = "evaluated")
           => /\ Len(stack) = 1 => result' = Ok(stack[1])
              /\ Len(stack) # 1 => result' = Err("Invalid expression", "")
    /\ (pc' = "evaluated" /\ input \in {<<>>, <<"(", ")">>, <<"2", " ", "2">>})
           => /\ pi' > Len(postfix')
              /\ result' = Err("Invalid expression", "")
              /\ Len(stack') = IF input = <<"2", " ", "2">> THEN 2 ELSE 0

\* C5: once every token is processed without an error, evaluate_postfix
\* returns Ok(v) exactly when the stack holds the single value v and returns
\* "Invalid expression" when it is empty (the lines "" and "()") or holds more
\* than one value (the line "2 2").
C5_FinalStack == [][C5_Step]_vars

C5_Witness ==
    /\ pc = "evaluated"
    /\ input = <<"2", " ", "2">>
    /\ stack = <<Num(2), Num(2)>>
    /\ result = Err("Invalid expression", "")

\* --- C6
NotEnough(o) == Err("Not enough operands for operator", o)
LeadingOperator(q) == q # <<>> /\ q[1].type = "Operator"
DoubledOperator(q) ==
    \E i \in 1..(Len(q) - 1) : q[i].type = "Operator" /\ q[i + 1].type = "Operator"

\* C6 as stated: a line with a leading or doubled binary operator ends in
\* "Not enough operands", never in a numeric result.
C6_Original ==
    pc = "evaluated" /\ (LeadingOperator(tokens) \/ DoubledOperator(tokens))
        => result.msg = "Not enough operands for operator"

\* A step of evaluate_postfix on an Operator with fewer than two values and
\* the final result of the example lines.
C6_Step ==
    /\ (pc = "evaluate" /\ pi <= Len(postfix) /\ postfix[pi].type = "Operator" /\ Len(stack) < 2)
           => /\ pc' = "evaluated"
              /\ result' = NotEnough(postfix[pi].op)
              /\ stack' = stack
              /\ pi' = pi
    /\ (pc' = "evaluated" /\ input \in {<<"-", "5">>, <<"+">>, <<"2", " ", "+", " ", "+", " ", "3">>})
           => /\ result'.msg = "Not enough operands for operator"
              /\ Len(stack') < 2
    /\ (pc' = "evaluated" /\ input = <<"-", "5", "/", "0">>)
           => result' = Err("Division by zero", "")
    /\ (pc' = "evaluated" /\ input = <<"-", " ", "5", " ", "5">>)
           => result' = Ok(Num(0))

\* C6, amended: evaluate_postfix returns "Not enough operands" at the first
\* Operator it meets with fewer than two values on the stack, popping nothing
\* and reading no later token; the lines "-5", "2 + + 3" and "+" end so, but a
\* leading operator does not force it: "-5/0" ends in "Division by zero" and
\* "- 5 5" in the result 0.
C6_InsufficientOperands == [][C6_Step]_vars

C6_Witness ==
    /\ pc = "evaluated"
    /\ input = <<"2", " ", "+", " ", "+", " ", "3">>
    /\ postfix = <<N(2), Operator("+"), N(3), Operator("+")>>
    /\ stack = <<Num(2)>>
    /\ result = NotEnough("+")

\* C7: tokenize consumes the characters left to right, each iteration one or
\* more, and always reaches the end; blanks, unrecognised characters and number
\* runs that do not parse give no token and do not stop the scan, so what is
\* returned is exactly the tokens of the operators, parentheses and parseable
\* number runs in input order; "" gives no token, "2 + 2" gives 2 + 2.
C7_Tokenize ==
    pc \in {"tokenize", "tokenized"} =>
        /\ pos \in 1..(Len(input) + 1)
        /\ tokens = TokensUpTo(input, pos - 1)
        /\ pos <= Len(input) =>
               /\ pc = "tokenize"
               /\ ENABLED Tokenize
               /\ TokenizeChar(input, pos).next \in (pos + 1)..(Len(input) + 1)
        /\ pc = "tokenized" =>
               /\ tokens = TokensUpTo(input, Len(input))
               /\ input = <<>> => tokens = <<>>
               /\ input = Text2p2 => tokens = <<N(2), Operator("+"), N(2)>>
               /\ input = <<"1", ".", "2", ".", "3">> => tokens = <<>>

C7_Witness ==
    /\ pc = "tokenized"
    /\ input = <<"3", " ", "$", " ", "4">>
    /\ tokens = <<N(3), N(4)>>
    /\ stderr = <<<<"Invalid character: ", "$">>>>

\* --- unmatched parentheses of a token sequence ------------------------------
\* LeftParens minus RightParens among q[j..i].
Balance(q, j, i) ==
    Cardinality({k \in j..i : q[k].type = "LeftParen"})
        - Cardinality({k \in j..i : q[k].type = "RightParen"})

\* A RightParen is unmatched when no stretch that ends just before it has
\* more LeftParens than RightParens.
UnmatchedRight(q, n) ==
    {i \in 1..n : q[i].type = "RightParen" /\ \A j \in 1..(i - 1) : Balance(q, j, i - 1) <= 0}

\* The LeftParens open after q[1..n]: the largest balance of a stretch that
\* ends at n, if positive.
OpenLeft(q, n) == Max({0} \cup {Balance(q, j, n) : j \in 1..n})

NonParens(q) == SelectSeq(q, LAMBDA x : x.type \in {"Number", "Operator"})

\* C8: infix_to_postfix writes "Mismatched parenthesis" once for each
\* RightParen read with no LeftParen on the stack and once for each LeftParen
\* left on the stack at the end of the input, and never for a balanced
\* sequence; it goes on after each: every token is read, the operators popped
\* stay in the output, the unmatched parenthesis is dropped, and the function
\* returns.
C8_Mismatched ==
    pc \in {"convert", "converted"} =>
        /\ \A i \in 1..Len(stderr) : stderr[i] = Mismatched
        /\ Count(operator_stack, LeftParen) <= OpenLeft(tokens, ti - 1)
        /\ Len(stderr) = Cardinality(UnmatchedRight(tokens, ti - 1))
                           + (OpenLeft(tokens, ti - 1) - Count(operator_stack, LeftParen))
        /\ ti <= Len(tokens) => Count(operator_stack, LeftParen) = OpenLeft(tokens, ti - 1)
        /\ pc = "convert" => ENABLED NextConvert
        /\ pc = "converted" =>
               /\ ti = Len(tokens) + 1
               /\ operator_stack = <<>>
               /\ Len(output_queue) = Len(NonParens(tokens))
               /\ (OpenLeft(tokens, Len(tokens)) = 0 /\ UnmatchedRight(tokens, Len(tokens)) = {})
                      => stderr = <<>>

C8_Witness ==
    /\ pc = "converted"
    /\ tokens = <<N(1), Operator("+"), RightParen, LeftParen>>
    /\ stderr = <<Mismatched, Mismatched>>
    /\ output_queue = <<N(1), Operator("+")>>

\* C10: the output of infix_to_postfix holds each Number and Operator token of
\* the input exactly once and nothing else, with the Numbers in input order;
\* at every step each Number or Operator already read is in exactly one of
\* the output and the operator stack.
C10_Conservation ==
    pc \in {"convert", "converted"} =>
        LET read == SubSeq(tokens, 1, ti - 1)
            held == output_queue \o NonParens(operator_stack)
        IN  /\ Len(held) = Len(NonParens(read))
            /\ \A x \in Range(NonParens(read)) \cup Range(held) :
                   Count(held, x) = Count(read, x)
            /\ SelectSeq(output_queue, LAMBDA x : x.type = "Number")
                   = SelectSeq(read, LAMBDA x : x.type = "Number")
            /\ pc = "converted" =>
                   /\ Len(output_queue) = Len(tokens) - Count(tokens, LeftParen)
                                                      - Count(tokens, RightParen)
                   /\ \A x \in Range(tokens) \cup Range(output_queue) :
                          x.type \in {"Number", "Operator"}
                              => Count(output_queue, x) = Count(tokens, x)
                   /\ \A x \in Range(output_queue) : x.type \in {"Number", "Operator"}

C10_Witness ==
    /\ pc = "converted"
    /\ tokens = <<N(2), Operator("+"), N(1), RightParen>>
    /\ output_queue = <<N(2), N(1), Operator("+")>>

\* --- what one line prints, from its text alone ------------------------------
QuitSpellings ==
    {<<q, u, i, t>> : q \in {"q", "Q"}, u \in {"u", "U"}, i \in {"i", "I"}, t \in {"t", "T"}}

LineOutcome(line) ==
    LET t == tokenize(Trim(line))
        c == infix_to_postfix(t.tokens)
        r == evaluate_postfix(c.out)
    IN  [out |-> PrintOut(r), err |-> t.err \o c.err \o PrintErr(r)]

\* Standard output and standard error after the first n reads, none a quit.
RECURSIVE OutAfter(_)
OutAfter(n) ==
    IF n = 0 THEN Banner ELSE OutAfter(n - 1) \o <<Prompt>> \o LineOutcome(ReadLineAt(n)).out

RECURSIVE ErrAfter(_)
ErrAfter(n) == IF n = 0 THEN <<>> ELSE ErrAfter(n - 1) \o LineOutcome(ReadLineAt(n)).err

\* The results and the error messages printed so far.
Results == SelectSeq(stdout, LAMBDA l : l.text = "res = ")
Errors == SelectSeq(stderr, LAMBDA l : l[1] = "Error: ")

\* What holds of the loop in every state.
C9_State ==
    /\ pc = "exit" <=> (rd >= 1 /\ Trim(ReadLineAt(rd)) \in QuitSpellings)
    /\ \A k \in 1..(rd - 1) : Trim(ReadLineAt(k)) \notin QuitSpellings
    /\ pc = "read" =>
           /\ stdout = OutAfter(rd)
           /\ stderr = ErrAfter(rd)
           /\ Len(Results) + Len(Errors) = rd
    /\ pc = "exit" =>
           /\ stdout = OutAfter(rd - 1) \o <<Prompt>>
           /\ stderr = ErrAfter(rd - 1)
           /\ Len(Results) + Len(Errors) = rd - 1
    /\ pc \notin {"read", "exit"} => Len(Results) + Len(Errors) = rd - 1

\* What holds of every step of the loop.
C9_Step ==
    /\ pc' = "exit" => pc = "read" /\ UNCHANGED <<tokens, convVars, postfix, pi, stack, result, stderr>>
    /\ pc = "evaluated" => pc' = "read" /\ rd' = rd

\* C9: main leaves its loop only on reading a line that is "quit" in any
\* letter case once trimmed, and before tokenize is called on it; every other
\* line prints exactly one result or error message, the loop then reads the
\* next line, and what a line prints depends on its text alone.
C9_Loop ==
    /\ []C9_State
    /\ [][C9_Step]_vars
    /\ (pc = "tokenize") ~> (pc = "read")

C9_Witness ==
    /\ pc = "exit"
    /\ rd = 2
    /\ stdin = <<<<"5", " ", "/", " ", "0", "\n">>, <<" ", "Q", "u", "i", "t", " ", "\n">>>>
    /\ stderr = <<<<"Error: ", "Division by zero", "">>>>

====
